---------------------------- MODULE Spec2Model ----------------------------
(***************************************************************************)
(* A model of the synthetic transaction generator of                       *)
(* martingaston/agentic-ai-workshop:                                       *)
(*   src/data/patterns.py                 the five archetype generators    *)
(*   src/data/generate_synthetic_data.py  generate_dataset and main        *)
(*   src/schema.py                        TransactionRecord, the constants *)
(*                                                                         *)
(* Numbers.  Python floats are modelled as fixed-point integers:           *)
(*   ratios                in hundredths (0.75 is 75),                     *)
(*   random.random()       in thousandths (0 .. 1000),                     *)
(*   money, confidence     in thousandths while they are computed and in   *)
(*                         hundredths once round(x, 2) has been applied,   *)
(*   datetimes             in ticks, TicksPerSecond of them to a second.   *)
(* A draw of the random module is a unit u in 0..UnitMax; the functions of *)
(* the random module are computed from it (RandInt, Uniform, Choice, ...). *)
(* Draws that only feed fields the record of the model does not carry      *)
(* (user_id, email_domain, session_duration_seconds, ...) are left out of  *)
(* the stream.                                                             *)
(***************************************************************************)
EXTENDS Integers, Sequences, FiniteSets, TLC

\* ------------------------------------------------------------------ bounds
\* the largest unit a draw can take; the generator state has UnitMax+1 values
UnitMax == 63
\* how many draws of a sampled tape differ from the tape's base value
MaxVaried == 3
\* random.gauss is sampled within GaussSpan standard deviations of the mean
GaussSpan == 4
\* the resolution of a datetime below one second
TicksPerSecond == 2
\* the largest size a caller asks for
MaxSize == 100
\* a legitimacy score is a multiple of 1/ScoreScale
ScoreScale == 100
\* the longest table validate_dataset is called on directly
MaxRows == 2

\* --------------------------------------------------------------- constants
SecondsPerDay == 86400
TicksPerDay == SecondsPerDay * TicksPerSecond
\* hexify('^^^^^^'): six hexadecimal digits
HexSpace == 16777216
\* the default thresholds of FraudDecisionEngine, in tenths: 0.7 and 0.4
auto_approve_threshold == 7
auto_deny_threshold == 4

HIGH_RISK_COUNTRIES == <<"RU", "NG", "CN", "PK", "ID", "UA", "VN">>
LOW_RISK_COUNTRIES ==
  <<"US", "CA", "GB", "AU", "DE", "FR", "JP", "SE", "NL", "CH">>

ABUSE_TYPES ==
  {"legitimate", "suspicious_but_legitimate", "fake_account",
   "account_takeover", "payment_fraud"}
\* the values a caller passes as difficulty; 'n/a' is the default of the
\* generate methods of the two legitimate archetypes
Difficulties == {"easy", "medium", "hard", "n/a"}

Min(a, b) == IF a < b THEN a ELSE b
Max(a, b) == IF a > b THEN a ELSE b

\* Optional[T]
None == [some |-> FALSE, v |-> 0]
Some(x) == [some |-> TRUE, v |-> x]

\* ------------------------------------------------- the random module
\* random.random(), in thousandths
Random(u) == (u * 1000) \div UnitMax
\* random.randint(lo, hi): both ends included
RandInt(lo, hi, u) == lo + ((hi - lo) * u) \div UnitMax
\* random.uniform(lo, hi), lo and hi in thousandths
Uniform(lo, hi, u) == lo + ((hi - lo) * u) \div UnitMax
\* random.choice(seq)
Choice(seq, u) == seq[1 + ((Len(seq) - 1) * u) \div UnitMax]

RECURSIVE SumTo(_, _)
SumTo(w, i) == IF i = 0 THEN 0 ELSE w[i] + SumTo(w, i - 1)
\* random.choices(options, weights)[0]: the first option whose cumulative
\* weight exceeds random() * total
WeightedChoice(options, weights, u) ==
  LET total == SumTo(weights, Len(weights))
      hit == {i \in 1..Len(options) : u * total < SumTo(weights, i) * UnitMax}
  IN  IF hit = {} THEN options[Len(options)]
      ELSE options[CHOOSE i \in hit : \A j \in hit : i <= j]
\* random.gauss(mu, sigma), mu and sigma in thousandths
Gauss(mu, sigma, u) ==
  LET z == (2 * GaussSpan * 1000 * u) \div UnitMax - GaussSpan * 1000
  IN  mu + (sigma * z) \div 1000
\* round(x, 2) of a non-negative x: thousandths to hundredths
Round2(x) == (x + 5) \div 10

\* the candidates left unfiltered
WithoutNothing(seq, excluded) == seq
\* [c for c in seq if c not in excluded]
RECURSIVE Without(_, _)
Without(seq, excluded) ==
  IF seq = <<>> THEN <<>>
  ELSE IF Head(seq) \in excluded THEN Without(Tail(seq), excluded)
       ELSE <<Head(seq)>> \o Without(Tail(seq), excluded)

\* The state of a seeded generator and the draw it yields.
RngMod == UnitMax + 1
Advance(s) == (5 * s + 3) % RngMod
RECURSIVE AdvanceBy(_, _)
\* n steps, taken as two halves; the state after the first half is computed
\* before the second half starts
AdvanceBy(s, n) ==
  IF n = 0 THEN s
  ELSE IF n = 1 THEN Advance(s)
  ELSE LET half == AdvanceBy(s, n \div 2)
       IN  IF half >= 0 THEN AdvanceBy(half, n - n \div 2) ELSE half

\* A source of draws: the stream of a generator state, or a tape of units.
Stream(s) == [kind |-> "stream", s |-> s, tape |-> <<>>]
Tape(t) == [kind |-> "tape", s |-> 0, tape |-> t]
\* the n-th draw of a source
At(src, n) ==
  IF src.kind = "tape" THEN src.tape[n] ELSE AdvanceBy(src.s, n - 1)

\* ------------------------------------------------- BasePatternGenerator
\* strftime('%Y%m%d') of a timestamp: its day
DateOf(t) == t \div TicksPerDay
\* _generate_transaction_id: TXN_<date>_<six hex digits from Faker>
GenerateTransactionId(timestamp, fu) ==
  <<DateOf(timestamp), ((HexSpace - 1) * fu) \div UnitMax>>
\* timestamp - timedelta(days=account_age_days)
AccountCreatedDate(timestamp, days) == timestamp - days * TicksPerDay

\* The record a generate method returns, with the draws it consumed.
Generated(rec, n) == [rec |-> rec, n |-> n]

\* ------------------------------------------- LegitimatePatternGenerator
LegitimateLabels(difficulty) ==
  [is_abuse |-> FALSE, abuse_type |-> "legitimate",
   abuse_confidence |-> 0, difficulty_tier |-> "n/a"]

\* mutant of OrderAmountFloor: the draw of random.gauss taken as it is
OrderAmountUnfloored(amount) == amount

\* mutant of FirstPurchaseRange: the upper ends not clamped to the account's
\* age
FirstPurchaseRangeUnclamped(archetype, difficulty, account_age_days) ==
  IF archetype = "fake_account"
  THEN (IF difficulty = "easy" THEN <<0, 0>>
        ELSE IF difficulty = "medium" THEN <<0, 3>> ELSE <<3, 14>>)
  ELSE IF archetype = "account_takeover" THEN <<30, account_age_days - 30>>
  ELSE IF archetype = "suspicious_but_legitimate" THEN <<0, 60>>
  ELSE <<0, 30>>
\* the two ends of the randint that draws days_since_first_purchase (the
\* easy fake account draws nothing: its value is 0)
FirstPurchaseRange(archetype, difficulty, account_age_days) ==
  IF archetype = "fake_account"
  THEN (IF difficulty = "easy" THEN <<0, 0>>
        ELSE IF difficulty = "medium" THEN <<0, Min(3, account_age_days)>>
        ELSE <<3, Min(14, account_age_days)>>)
  ELSE IF archetype = "account_takeover" THEN <<30, account_age_days - 30>>
  ELSE IF archetype = "suspicious_but_legitimate"
       THEN <<0, Min(60, account_age_days - 10)>>
  ELSE <<0, Min(30, account_age_days)>>

\* order_amount = max(10.0, order_amount)
OrderAmountFloor(amount) == Max(10000, amount)

LegitimateGenerate(timestamp, difficulty, src, fu) ==
  LET account_age_days == RandInt(30, 365, At(src, 1))
      range == FirstPurchaseRange("legitimate", "n/a", account_age_days)
      days_since_first_purchase == RandInt(range[1], range[2], At(src, 2))
      orders_24h == WeightedChoice(<<0, 1>>, <<80, 20>>, At(src, 3))
      orders_7d == RandInt(0, 5, At(src, 4))
      country == Choice(LOW_RISK_COUNTRIES, At(src, 5))
      cardKeeps == Random(At(src, 6)) > 100
      card_country ==
        IF cardKeeps THEN country ELSE Choice(LOW_RISK_COUNTRIES, At(src, 7))
      n1 == IF cardKeeps THEN 6 ELSE 7
      billing_country == country
      shipKeeps == Random(At(src, n1 + 1)) > 50
      shipping_country ==
        IF shipKeeps THEN country
        ELSE Choice(LOW_RISK_COUNTRIES, At(src, n1 + 2))
      n2 == IF shipKeeps THEN n1 + 1 ELSE n1 + 2
      avg_order_value == Uniform(30000, 200000, At(src, n2 + 1))
      order_amount ==
        OrderAmountFloor(Gauss(avg_order_value, (avg_order_value * 3) \div 10,
                               At(src, n2 + 2)))
      noFailed == Random(At(src, n2 + 3)) > 50
      failed == IF noFailed THEN 0 ELSE RandInt(1, 2, At(src, n2 + 4))
      n3 == IF noFailed THEN n2 + 3 ELSE n2 + 4
      resets == IF Random(At(src, n3 + 1)) > 100 THEN 0 ELSE 1
      labels == LegitimateLabels(difficulty)
  IN  Generated(
        [transaction_id |-> GenerateTransactionId(timestamp, fu),
         timestamp |-> timestamp,
         order_amount |-> Round2(order_amount),
         account_created_date |-> AccountCreatedDate(timestamp, account_age_days),
         account_age_days |-> account_age_days,
         failed_login_attempts_24h |-> failed,
         password_reset_count_30d |-> resets,
         ip_country |-> country,
         new_device |-> Random(At(src, n3 + 2)) < 150,
         vpn_proxy_detected |-> Random(At(src, n3 + 3)) < 50,
         card_country |-> card_country,
         billing_country |-> billing_country,
         shipping_country |-> shipping_country,
         billing_shipping_match |-> billing_country = shipping_country,
         days_since_account_first_purchase |-> days_since_first_purchase,
         orders_last_24h |-> orders_24h,
         orders_last_7d |-> orders_7d,
         is_abuse |-> labels.is_abuse,
         abuse_type |-> labels.abuse_type,
         abuse_confidence |-> labels.abuse_confidence,
         difficulty_tier |-> labels.difficulty_tier],
        n3 + 3)

\* ------------------------------------------ FakeAccountPatternGenerator
\* mutant of FakeAccountConfidence: the medium tier starts at 0.60
FakeAccountConfidenceWide(difficulty, u) ==
  IF difficulty = "easy" THEN Uniform(850, 980, u)
  ELSE IF difficulty = "medium" THEN Uniform(600, 800, u)
  ELSE Uniform(450, 650, u)

\* abuse_confidence = random.uniform(..) of the tier, in thousandths
FakeAccountConfidence(difficulty, u) ==
  IF difficulty = "easy" THEN Uniform(850, 980, u)
  ELSE IF difficulty = "medium" THEN Uniform(650, 800, u)
  ELSE Uniform(450, 650, u)

FakeAccountLabels(difficulty, confidence) ==
  [is_abuse |-> TRUE, abuse_type |-> "fake_account",
   abuse_confidence |-> Round2(confidence), difficulty_tier |-> difficulty]

\* 'billing_shipping_match': random.random() < 0.4
FakeAccountBillingShippingMatch(billing_country, shipping_country, u) ==
  Random(u) < 400

\* mutant of FakeAccountAge: the easy tier up to a week old
FakeAccountAgeWeek(difficulty, u) ==
  IF difficulty = "easy" THEN RandInt(0, 7, u)
  ELSE IF difficulty = "medium" THEN RandInt(3, 7, u)
  ELSE RandInt(7, 30, u)

\* account_age_days = random.randint(..) of the tier
FakeAccountAge(difficulty, u) ==
  IF difficulty = "easy" THEN RandInt(0, 3, u)
  ELSE IF difficulty = "medium" THEN RandInt(3, 7, u)
  ELSE RandInt(7, 30, u)

FakeAccountGenerate(timestamp, difficulty, src, fu) ==
  LET account_age_days == FakeAccountAge(difficulty, At(src, 1))
      abuse_confidence == FakeAccountConfidence(difficulty, At(src, 2))
      range == FirstPurchaseRange("fake_account", difficulty, account_age_days)
      days_since_first_purchase ==
        IF difficulty = "easy" THEN 0
        ELSE RandInt(range[1], range[2], At(src, 3))
      n1 == IF difficulty = "easy" THEN 2 ELSE 3
      total_orders ==
        IF difficulty = "easy" THEN RandInt(1, 3, At(src, n1 + 1))
        ELSE RandInt(1, 5, At(src, n1 + 1))
      country ==
        Choice(LOW_RISK_COUNTRIES \o HIGH_RISK_COUNTRIES, At(src, n1 + 2))
      card_country == Choice(LOW_RISK_COUNTRIES, At(src, n1 + 3))
      billing_country == card_country
      shipping_country == Choice(LOW_RISK_COUNTRIES, At(src, n1 + 4))
      order_amount == Uniform(50000, 500000, At(src, n1 + 5))
      labels == FakeAccountLabels(difficulty, abuse_confidence)
  IN  Generated(
        [transaction_id |-> GenerateTransactionId(timestamp, fu),
         timestamp |-> timestamp,
         order_amount |-> Round2(order_amount),
         account_created_date |-> AccountCreatedDate(timestamp, account_age_days),
         account_age_days |-> account_age_days,
         failed_login_attempts_24h |-> 0,
         password_reset_count_30d |-> 0,
         ip_country |-> country,
         new_device |-> TRUE,
         vpn_proxy_detected |-> Random(At(src, n1 + 6)) < 300,
         card_country |-> card_country,
         billing_country |-> billing_country,
         shipping_country |-> shipping_country,
         billing_shipping_match |->
           FakeAccountBillingShippingMatch(billing_country, shipping_country,
                                           At(src, n1 + 7)),
         days_since_account_first_purchase |-> days_since_first_purchase,
         orders_last_24h |-> RandInt(1, 3, At(src, n1 + 8)),
         orders_last_7d |-> total_orders,
         is_abuse |-> labels.is_abuse,
         abuse_type |-> labels.abuse_type,
         abuse_confidence |-> labels.abuse_confidence,
         difficulty_tier |-> labels.difficulty_tier],
        n1 + 8)

\* -------------------------------------- AccountTakeoverPatternGenerator
AccountTakeoverConfidence(difficulty, u) ==
  IF difficulty = "easy" THEN Uniform(850, 970, u)
  ELSE IF difficulty = "medium" THEN Uniform(650, 800, u)
  ELSE Uniform(450, 650, u)

AccountTakeoverLabels(difficulty, confidence) ==
  [is_abuse |-> TRUE, abuse_type |-> "account_takeover",
   abuse_confidence |-> Round2(confidence), difficulty_tier |-> difficulty]

\* mutant of AccountTakeoverFailedLogins: the hard tier is left with a
\* failed login
AccountTakeoverFailedLoginsSome(difficulty, u) ==
  IF difficulty = "easy" THEN RandInt(5, 15, u)
  ELSE IF difficulty = "medium" THEN RandInt(2, 6, u)
  ELSE RandInt(0, 1, u)

\* failed_login_attempts_24h of the tier: no draw in the hard tier
AccountTakeoverFailedLogins(difficulty, u) ==
  IF difficulty = "easy" THEN RandInt(5, 15, u)
  ELSE IF difficulty = "medium" THEN RandInt(2, 6, u)
  ELSE 0

AccountTakeoverGenerate(timestamp, difficulty, src, fu) ==
  LET account_age_days == RandInt(90, 730, At(src, 1))
      range == FirstPurchaseRange("account_takeover", difficulty,
                                  account_age_days)
      days_since_first_purchase == RandInt(range[1], range[2], At(src, 2))
      tiered == difficulty \in {"easy", "medium"}
      failed_login_attempts_24h ==
        AccountTakeoverFailedLogins(difficulty, At(src, 3))
      password_reset_count_30d ==
        IF difficulty = "easy"
        THEN WeightedChoice(<<1, 2>>, <<70, 30>>, At(src, 4))
        ELSE IF difficulty = "medium"
             THEN WeightedChoice(<<0, 1>>, <<50, 50>>, At(src, 4))
             ELSE 0
      n1 == IF tiered THEN 5 ELSE 3
      abuse_confidence == AccountTakeoverConfidence(difficulty, At(src, n1))
      original_country == Choice(LOW_RISK_COUNTRIES, At(src, n1 + 1))
      sameCountry == ~tiered /\ Random(At(src, n1 + 2)) < 600
      suspicious_country ==
        IF difficulty = "easy" THEN Choice(HIGH_RISK_COUNTRIES, At(src, n1 + 2))
        ELSE IF difficulty = "medium"
             THEN Choice(LOW_RISK_COUNTRIES, At(src, n1 + 2))
             ELSE IF sameCountry THEN original_country
                  ELSE Choice(LOW_RISK_COUNTRIES, At(src, n1 + 3))
      n2 == IF tiered \/ sameCountry THEN n1 + 2 ELSE n1 + 3
      vpn_detected ==
        IF difficulty = "easy" THEN Random(At(src, n2 + 1)) < 500
        ELSE IF difficulty = "medium" THEN Random(At(src, n2 + 1)) < 400
        ELSE Random(At(src, n2 + 1)) < 200
      ip_country == suspicious_country
      card_country == original_country
      billing_country == original_country
      shipping_country ==
        IF difficulty = "easy"
        THEN Choice(HIGH_RISK_COUNTRIES \o LOW_RISK_COUNTRIES, At(src, n2 + 2))
        ELSE IF difficulty = "medium"
             THEN (IF Random(At(src, n2 + 2)) > 400 THEN suspicious_country
                   ELSE original_country)
             ELSE (IF Random(At(src, n2 + 2)) > 300 THEN original_country
                   ELSE suspicious_country)
      historical_avg == Uniform(40000, 150000, At(src, n2 + 3))
      multiple ==
        IF difficulty = "easy" THEN Uniform(2000, 4000, At(src, n2 + 4))
        ELSE IF difficulty = "medium" THEN Uniform(1300, 2500, At(src, n2 + 4))
        ELSE Uniform(900, 1800, At(src, n2 + 4))
      order_amount == (historical_avg * multiple) \div 1000
      n3 == IF difficulty = "easy" THEN n2 + 4 ELSE n2 + 5
      new_device ==
        IF difficulty = "easy" THEN TRUE ELSE Random(At(src, n2 + 5)) < 700
      labels == AccountTakeoverLabels(difficulty, abuse_confidence)
  IN  Generated(
        [transaction_id |-> GenerateTransactionId(timestamp, fu),
         timestamp |-> timestamp,
         order_amount |-> Round2(order_amount),
         account_created_date |-> AccountCreatedDate(timestamp, account_age_days),
         account_age_days |-> account_age_days,
         failed_login_attempts_24h |-> failed_login_attempts_24h,
         password_reset_count_30d |-> password_reset_count_30d,
         ip_country |-> ip_country,
         new_device |-> new_device,
         vpn_proxy_detected |-> vpn_detected,
         card_country |-> card_country,
         billing_country |-> billing_country,
         shipping_country |-> shipping_country,
         billing_shipping_match |-> billing_country = shipping_country,
         days_since_account_first_purchase |-> days_since_first_purchase,
         orders_last_24h |-> RandInt(1, 2, At(src, n3 + 1)),
         orders_last_7d |-> RandInt(1, 3, At(src, n3 + 2)),
         is_abuse |-> labels.is_abuse,
         abuse_type |-> labels.abuse_type,
         abuse_confidence |-> labels.abuse_confidence,
         difficulty_tier |-> labels.difficulty_tier],
        n3 + 2)

\* ----------------------------------------- PaymentFraudPatternGenerator
PaymentFraudConfidence(difficulty, u) ==
  IF difficulty = "easy" THEN Uniform(850, 970, u)
  ELSE IF difficulty = "medium" THEN Uniform(650, 800, u)
  ELSE Uniform(450, 650, u)

PaymentFraudLabels(difficulty, confidence) ==
  [is_abuse |-> TRUE, abuse_type |-> "payment_fraud",
   abuse_confidence |-> Round2(confidence), difficulty_tier |-> difficulty]

PaymentFraudGenerate(timestamp, difficulty, src, fu) ==
  LET account_age_days ==
        IF difficulty = "easy" THEN RandInt(1, 30, At(src, 1))
        ELSE IF difficulty = "medium" THEN RandInt(15, 90, At(src, 1))
        ELSE RandInt(60, 180, At(src, 1))
      abuse_confidence == PaymentFraudConfidence(difficulty, At(src, 2))
      range == FirstPurchaseRange("payment_fraud", difficulty,
                                  account_age_days)
      days_since_first_purchase == RandInt(range[1], range[2], At(src, 3))
      card_country == Choice(LOW_RISK_COUNTRIES, At(src, 4))
      ip_country ==
        IF difficulty = "easy" THEN Choice(HIGH_RISK_COUNTRIES, At(src, 5))
        ELSE IF difficulty = "medium"
             THEN Choice(LOW_RISK_COUNTRIES \o HIGH_RISK_COUNTRIES, At(src, 5))
             ELSE Choice(LOW_RISK_COUNTRIES, At(src, 5))
      billingKeeps == difficulty = "medium" /\ Random(At(src, 6)) < 500
      billing_country ==
        IF difficulty = "easy"
        THEN Choice(Without(LOW_RISK_COUNTRIES, {card_country}), At(src, 6))
        ELSE IF difficulty = "medium"
             THEN (IF billingKeeps THEN card_country
                   ELSE Choice(LOW_RISK_COUNTRIES, At(src, 7)))
             ELSE card_country
      n1 == IF difficulty = "easy" THEN 6
            ELSE IF difficulty = "medium" THEN (IF billingKeeps THEN 6 ELSE 7)
            ELSE 5
      shipsAway == Random(At(src, n1 + 1)) < 700
      shipping_country ==
        IF difficulty = "easy"
        THEN Choice(Without(LOW_RISK_COUNTRIES, {card_country, billing_country}),
                    At(src, n1 + 1))
        ELSE IF difficulty = "medium"
             THEN Choice(LOW_RISK_COUNTRIES, At(src, n1 + 1))
             ELSE (IF shipsAway THEN Choice(LOW_RISK_COUNTRIES, At(src, n1 + 2))
                   ELSE card_country)
      n2 == IF difficulty \in {"easy", "medium"} THEN n1 + 1
            ELSE (IF shipsAway THEN n1 + 2 ELSE n1 + 1)
      order_amount ==
        IF difficulty = "easy" THEN Uniform(500000, 2000000, At(src, n2 + 1))
        ELSE IF difficulty = "medium"
             THEN Uniform(200000, 800000, At(src, n2 + 1))
             ELSE Uniform(100000, 500000, At(src, n2 + 1))
      orders_24h ==
        IF difficulty = "easy" THEN RandInt(3, 8, At(src, n2 + 2))
        ELSE IF difficulty = "medium" THEN RandInt(1, 3, At(src, n2 + 2))
        ELSE WeightedChoice(<<0, 1>>, <<70, 30>>, At(src, n2 + 2))
      labels == PaymentFraudLabels(difficulty, abuse_confidence)
  IN  Generated(
        [transaction_id |-> GenerateTransactionId(timestamp, fu),
         timestamp |-> timestamp,
         order_amount |-> Round2(order_amount),
         account_created_date |-> AccountCreatedDate(timestamp, account_age_days),
         account_age_days |-> account_age_days,
         failed_login_attempts_24h |-> RandInt(0, 3, At(src, n2 + 3)),
         password_reset_count_30d |->
           WeightedChoice(<<0, 1>>, <<80, 20>>, At(src, n2 + 4)),
         ip_country |-> ip_country,
         new_device |-> Random(At(src, n2 + 5)) < 500,
         vpn_proxy_detected |-> Random(At(src, n2 + 6)) < 350,
         card_country |-> card_country,
         billing_country |-> billing_country,
         shipping_country |-> shipping_country,
         billing_shipping_match |-> billing_country = shipping_country,
         days_since_account_first_purchase |-> days_since_first_purchase,
         orders_last_24h |-> orders_24h,
         orders_last_7d |-> RandInt(orders_24h, orders_24h + 5, At(src, n2 + 7)),
         is_abuse |-> labels.is_abuse,
         abuse_type |-> labels.abuse_type,
         abuse_confidence |-> labels.abuse_confidence,
         difficulty_tier |-> labels.difficulty_tier],
        n2 + 7)

\* ------------------------------ SuspiciousButLegitimatePatternGenerator
BEHAVIOR_TYPES ==
  <<"vpn_user", "traveler", "gift_buyer", "power_shopper", "expat">>

\* mutants of SuspiciousLabels: the record flagged as abuse; the difficulty
\* argument passed through as the tier
SuspiciousLabelsFlagged(difficulty, confidence) ==
  [is_abuse |-> TRUE, abuse_type |-> "suspicious_but_legitimate",
   abuse_confidence |-> Round2(confidence), difficulty_tier |-> "n/a"]
SuspiciousLabelsTiered(difficulty, confidence) ==
  [is_abuse |-> FALSE, abuse_type |-> "suspicious_but_legitimate",
   abuse_confidence |-> Round2(confidence), difficulty_tier |-> difficulty]

SuspiciousLabels(difficulty, confidence) ==
  [is_abuse |-> FALSE, abuse_type |-> "suspicious_but_legitimate",
   abuse_confidence |-> Round2(confidence), difficulty_tier |-> "n/a"]

\* mutant of SuspiciousConfidence: the behaviours scored as the fraud
\* archetypes' easy tier is
SuspiciousConfidenceHigh(behavior_type, u) == Uniform(850, 980, u)
\* abuse_confidence of the five behaviours, in thousandths
SuspiciousConfidence(behavior_type, u) ==
  IF behavior_type = "vpn_user" THEN Uniform(450, 650, u)
  ELSE IF behavior_type = "traveler" THEN Uniform(400, 600, u)
  ELSE IF behavior_type = "gift_buyer" THEN Uniform(350, 550, u)
  ELSE IF behavior_type = "power_shopper" THEN Uniform(400, 650, u)
  ELSE Uniform(350, 600, u)

SuspiciousButLegitimateGenerate(timestamp, difficulty, src, fu) ==
  LET behavior_type == Choice(BEHAVIOR_TYPES, At(src, 1))
      account_age_days == RandInt(60, 730, At(src, 2))
      range == FirstPurchaseRange("suspicious_but_legitimate", difficulty,
                                  account_age_days)
      days_since_first_purchase == RandInt(range[1], range[2], At(src, 3))
      home_country == Choice(LOW_RISK_COUNTRIES, At(src, 4))
      \* the countries drawn by the behaviour: one for the ip, one to ship to
      ip_country ==
        IF behavior_type = "vpn_user"
        THEN Choice(LOW_RISK_COUNTRIES \o HIGH_RISK_COUNTRIES, At(src, 5))
        ELSE IF behavior_type \in {"traveler", "expat"}
             THEN Choice(LOW_RISK_COUNTRIES, At(src, 5))
             ELSE home_country
      shipping_country ==
        IF behavior_type = "traveler"
        THEN Choice(<<home_country, ip_country>>, At(src, 6))
        ELSE IF behavior_type = "gift_buyer"
             THEN Choice(LOW_RISK_COUNTRIES, At(src, 5))
             ELSE IF behavior_type = "expat" THEN ip_country
                  ELSE home_country
      n1 == IF behavior_type = "traveler" THEN 6
            ELSE IF behavior_type = "power_shopper" THEN 4
            ELSE 5
      vpn_proxy_detected ==
        IF behavior_type = "vpn_user" THEN TRUE
        ELSE IF behavior_type = "traveler" THEN Random(At(src, n1 + 1)) < 300
        ELSE IF behavior_type = "gift_buyer" THEN Random(At(src, n1 + 1)) < 100
        ELSE IF behavior_type = "power_shopper"
             THEN Random(At(src, n1 + 1)) < 150
             ELSE Random(At(src, n1 + 1)) < 200
      n2 == IF behavior_type = "vpn_user" THEN n1 ELSE n1 + 1
      new_device ==
        IF behavior_type = "vpn_user" THEN Random(At(src, n2 + 1)) < 200
        ELSE IF behavior_type = "traveler" THEN Random(At(src, n2 + 1)) < 400
        ELSE IF behavior_type = "gift_buyer" THEN Random(At(src, n2 + 1)) < 150
        ELSE IF behavior_type = "power_shopper"
             THEN Random(At(src, n2 + 1)) < 100
             ELSE Random(At(src, n2 + 1)) < 200
      order_amount ==
        IF behavior_type = "vpn_user" THEN Uniform(30000, 300000, At(src, n2 + 2))
        ELSE IF behavior_type = "traveler"
             THEN Uniform(40000, 400000, At(src, n2 + 2))
        ELSE IF behavior_type = "gift_buyer"
             THEN Uniform(50000, 500000, At(src, n2 + 2))
        ELSE IF behavior_type = "power_shopper"
             THEN Uniform(100000, 800000, At(src, n2 + 2))
             ELSE Uniform(40000, 400000, At(src, n2 + 2))
      abuse_confidence == SuspiciousConfidence(behavior_type, At(src, n2 + 3))
      orders_24h ==
        IF behavior_type = "power_shopper" THEN RandInt(2, 5, At(src, n2 + 4))
        ELSE WeightedChoice(<<0, 1>>, <<60, 40>>, At(src, n2 + 4))
      orders_7d ==
        IF behavior_type = "power_shopper" THEN RandInt(5, 15, At(src, n2 + 5))
        ELSE RandInt(1, 4, At(src, n2 + 5))
      labels == SuspiciousLabels(difficulty, abuse_confidence)
  IN  Generated(
        [transaction_id |-> GenerateTransactionId(timestamp, fu),
         timestamp |-> timestamp,
         order_amount |-> Round2(order_amount),
         account_created_date |-> AccountCreatedDate(timestamp, account_age_days),
         account_age_days |-> account_age_days,
         failed_login_attempts_24h |->
           WeightedChoice(<<0, 1>>, <<95, 5>>, At(src, n2 + 6)),
         password_reset_count_30d |->
           WeightedChoice(<<0, 1>>, <<90, 10>>, At(src, n2 + 7)),
         ip_country |-> ip_country,
         new_device |-> new_device,
         vpn_proxy_detected |-> vpn_proxy_detected,
         card_country |-> home_country,
         billing_country |-> home_country,
         shipping_country |-> shipping_country,
         billing_shipping_match |-> home_country = shipping_country,
         days_since_account_first_purchase |-> days_since_first_purchase,
         orders_last_24h |-> orders_24h,
         orders_last_7d |-> orders_7d,
         is_abuse |-> labels.is_abuse,
         abuse_type |-> labels.abuse_type,
         abuse_confidence |-> labels.abuse_confidence,
         difficulty_tier |-> labels.difficulty_tier],
        n2 + 7)

\* ======================================================================
\* generate_synthetic_data.py
\* ======================================================================
VARIABLES
  gcall,       \* a direct call of one generate method: its arguments
  rec,         \* <<>> or <<the record that call returned>>
  pc,          \* where the caller of generate_dataset is
  caller,      \* "cli": main(); "lib": a direct call (agent/test_agent.py)
  args,        \* the arguments of generate_dataset, the same in both runs
  run,         \* 1 or 2: the caller runs twice with the same arguments
  clock,       \* datetime.now()
  rng,         \* the state of the random module
  fk,          \* the state of Faker's shared generator
  np,          \* the state of numpy's global generator
  window,      \* <<start_date, end_date>> once the defaults are filled in
  counts,      \* the count of each archetype
  i,           \* the index of the running loop
  records,     \* List[TransactionRecord]
  df,          \* the DataFrame: a sequence of rows
  first,       \* <<>> or <<table, arguments, window>> of the first run
  fileWritten, \* whether main() has written the CSV file
  apc,         \* where the handler of POST /api/v1/review is
  ml,          \* what ml_client.predict gave: a prediction or an exception
  decision,    \* <<>> or <<the FraudDecisionResponse of make_decision>>
  http,        \* the status the endpoint answers with, 0 before it answers
  report       \* what validate_dataset printed about the is_abuse flag

vars ==
  <<gcall, rec, pc, caller, args, run, clock, rng, fk, np, window, counts, i,
    records, df, first, fileWritten, apc, ml, decision, http, report>>
genVars == <<gcall, rec>>
agentVars == <<apc, ml, decision, http>>
dataVars ==
  <<pc, caller, args, run, clock, rng, fk, np, window, counts, i, records, df,
    first, fileWritten>>

\* ------------------------------------------------------ inputs of the model
Sizes == {0, 3, 10, MaxSize}
\* <<legitimate, fake_account, account_takeover, payment_fraud>> ratios, in
\* hundredths: the defaults, Scenario A, Scenario D (sum 1.05), both ends of
\* the tolerance (1.01 and 0.99), uneven fractions, one archetype only, and
\* a sum below the tolerance (0.98).  On these ratios and Sizes the float
\* products and sums of the code equal the exact ones.
RatioChoices ==
  {<<75, 10, 8, 7>>, <<70, 10, 10, 10>>, <<70, 10, 10, 15>>, <<50, 30, 21, 0>>,
   <<19, 19, 19, 43>>, <<34, 33, 32, 0>>, <<100, 0, 0, 0>>, <<40, 30, 20, 8>>}
SeedChoices == {42, 7}
\* the states the generators can have when nothing has seeded them
Entropy == {0, RngMod \div 2}
StartClock == 100 * TicksPerDay + 1
\* how far datetime.now() moves between the two runs
ClockSteps == {1, TicksPerDay + 1}
\* the default window, a window of two days, and the degenerate windows: end
\* equal to start, end a day before start, end a tick before start
WindowChoices ==
  {<<None, None>>, <<Some(0), Some(2 * TicksPerDay)>>,
   <<Some(TicksPerDay), Some(TicksPerDay)>>, <<Some(TicksPerDay), Some(0)>>,
   <<Some(1), Some(0)>>}

\* mutant of DefaultDifficulty: the fraud generators default to 'hard'
DefaultDifficultyHard(archetype) ==
  IF archetype = "legitimate" THEN "n/a" ELSE "hard"
\* the default of the difficulty parameter of each generate method
DefaultDifficulty(archetype) ==
  IF archetype = "legitimate" THEN "n/a" ELSE "easy"

\* --------------------------------------------------------- pure helpers
\* int(x) of the quotient a/b: truncation towards zero
IntDiv(a, b) == IF a >= 0 THEN a \div b ELSE -((-a) \div b)

\* mutant of RatiosValid: a tolerance of 0.1
RatiosValidLoose(total) == 90 <= total /\ total <= 110

\* 0.99 <= total_ratio <= 1.01
RatiosValid(total) == 99 <= total /\ total <= 101
TotalRatio(ratios) == ratios[1] + ratios[2] + ratios[3] + ratios[4]

\* mutant of CountOf: the product rounded up
CountOfCeiling(size, ratio) == (size * ratio + 99) \div 100

\* int(size * ratio)
CountOf(size, ratio) == IntDiv(size * ratio, 100)

\* random.seed(seed), Faker.seed(seed), RandomState(seed): the state a seed
\* gives a generator
SeedState(seed) == seed % RngMod
\* mutant of SeedRandom: the seed is not used
SeedRandomIgnored(seed, state) == state

\* "if seed is not None: random.seed(seed)": the state after it
SeedRandom(seed, state) == IF seed.some THEN SeedState(seed.v) ELSE state

\* random.randint(0, int(time_delta.total_seconds())) raises ValueError
\* ("empty range") when its upper end is below 0
EmptyRange(start_date, end_date) ==
  IntDiv(end_date - start_date, TicksPerSecond) < 0

\* generate_timestamp(start_date, end_date)
GenerateTimestamp(start_date, end_date, u) ==
  LET total_seconds == IntDiv(end_date - start_date, TicksPerSecond)
  IN  start_date + RandInt(0, total_seconds, u) * TicksPerSecond

\* strftime('%Y-%m-%d %H:%M:%S'): a datetime to the second
FormatDatetime(t) == t \div TicksPerSecond
\* TransactionRecord.to_dict
ToDict(r) ==
  [r EXCEPT !.timestamp = FormatDatetime(r.timestamp),
            !.account_created_date = FormatDatetime(r.account_created_date)]

\* mutant of Sample: rows drawn with replacement
SampleWithReplacement(rows, s) ==
  [k \in 1..Len(rows) |-> rows[1 + ((k * s) % Len(rows))]]

\* df.sample(frac=1.0, random_state=..): a permutation of the rows fixed by
\* the generator state s; each half of the rows is permuted from the states
\* that follow s, and s decides which half comes first
RECURSIVE Sample(_, _)
Sample(rows, s) ==
  IF Len(rows) <= 1 THEN rows
  ELSE LET h == Len(rows) \div 2
           left == Sample(SubSeq(rows, 1, h), Advance(s))
           right == Sample(SubSeq(rows, h + 1, Len(rows)), Advance(Advance(s)))
       IN  IF s % 2 = 0 THEN right \o left ELSE left \o right

\* the rows of an archetype
RowsOf(rows, archetype) ==
  {k \in 1..Len(rows) : rows[k].abuse_type = archetype}

\* ------------------------------------------------------ generate_dataset
NoCounts ==
  [legitimate |-> 0, fake_account |-> 0, account_takeover |-> 0,
   payment_fraud |-> 0]
NoCall == [archetype |-> "none", timestamp |-> 0, difficulty |-> "n/a"]

\* the arguments main() passes: --seed has a default, no dates are passed
CliArgs ==
  {[size |-> n, ratios |-> r, seed |-> Some(sd), start_date |-> None,
    end_date |-> None, suspicious_but_legitimate_ratio |-> None,
    validate |-> v] :
     n \in Sizes, r \in RatioChoices, sd \in SeedChoices, v \in BOOLEAN}
\* the arguments of a direct call; AgentTester.run_tests passes
\* suspicious_but_legitimate_ratio=0.0
LibArgs ==
  {[size |-> n, ratios |-> r, seed |-> sd, start_date |-> w[1],
    end_date |-> w[2], suspicious_but_legitimate_ratio |-> sbl,
    validate |-> FALSE] :
     n \in Sizes, r \in RatioChoices,
     sd \in {None} \cup {Some(x) : x \in SeedChoices},
     w \in WindowChoices, sbl \in {None, Some(0)}}

\* no request to the agent service
NoAnswer == [kind |-> "none", legitimacy_score |-> 0]
AgentIdle ==
  /\ apc = "idle"
  /\ ml = NoAnswer
  /\ decision = <<>>
  /\ http = 0

InitData ==
  /\ pc = "start"
  /\ caller \in {"cli", "lib"}
  /\ args \in (IF caller = "cli" THEN CliArgs ELSE LibArgs)
  /\ run = 1
  /\ clock = StartClock
  /\ rng \in Entropy
  /\ fk = rng
  /\ np = rng
  /\ window = <<0, 0>>
  /\ counts = NoCounts
  /\ i = 0
  /\ records = <<>>
  /\ df = <<>>
  /\ first = <<>>
  /\ fileWritten = FALSE
  /\ report = ""

\* The call binds its keyword arguments to the parameters of the signature:
\* size, the four ratios, seed, start_date and end_date.
Call ==
  /\ pc = "start"
  /\ pc' = IF args.suspicious_but_legitimate_ratio.some THEN "TypeError"
           ELSE "validate_ratios"
  /\ window' = <<0, 0>>
  /\ counts' = NoCounts
  /\ i' = 0
  /\ records' = <<>>
  /\ df' = <<>>
  /\ UNCHANGED <<caller, args, run, clock, rng, fk, np, first, fileWritten>>
  /\ UNCHANGED genVars /\ UNCHANGED agentVars /\ UNCHANGED report

ValidateRatios ==
  /\ pc = "validate_ratios"
  /\ pc' = IF RatiosValid(TotalRatio(args.ratios)) THEN "seed" ELSE "ValueError"
  /\ UNCHANGED <<caller, args, run, clock, rng, fk, np, window, counts, i,
                 records, df, first, fileWritten>>
  /\ UNCHANGED genVars /\ UNCHANGED agentVars /\ UNCHANGED report

\* random.seed, Faker.seed, the four generator constructors (each seeds both
\* again with the same seed), and the defaults of the window
SetUp ==
  /\ pc = "seed"
  /\ rng' = SeedRandom(args.seed, rng)
  /\ fk' = SeedRandom(args.seed, fk)
  /\ LET end_date == IF args.end_date.some THEN args.end_date.v ELSE clock
         start_date == IF args.start_date.some THEN args.start_date.v
                       ELSE end_date - 90 * TicksPerDay
     IN  window' = <<start_date, end_date>>
  /\ pc' = "count"
  /\ UNCHANGED <<caller, args, run, clock, np, counts, i, records, df, first,
                 fileWritten>>
  /\ UNCHANGED genVars /\ UNCHANGED agentVars /\ UNCHANGED report

\* the four counts; the prints that follow divide by size
CalculateCounts ==
  /\ pc = "count"
  /\ LET legitimate_count == CountOf(args.size, args.ratios[1])
         fake_account_count == CountOf(args.size, args.ratios[2])
         account_takeover_count == CountOf(args.size, args.ratios[3])
     IN  counts' =
           [legitimate |-> legitimate_count,
            fake_account |-> fake_account_count,
            account_takeover |-> account_takeover_count,
            payment_fraud |->
              args.size - legitimate_count - fake_account_count
                - account_takeover_count]
  /\ pc' = IF args.size = 0 THEN "ZeroDivisionError" ELSE "gen_legitimate"
  /\ i' = 0
  /\ records' = <<>>
  /\ UNCHANGED <<caller, args, run, clock, rng, fk, np, window, df, first,
                 fileWritten>>
  /\ UNCHANGED genVars /\ UNCHANGED agentVars /\ UNCHANGED report

\* timestamp = generate_timestamp(start_date, end_date), on the next draw
NextTimestamp == GenerateTimestamp(window[1], window[2], rng)
\* the draws that follow the one of the timestamp
NextDraws == Stream(Advance(rng))

\* mutant of Loop: the table is made and shuffled after the first loop
LoopThenShuffle(archetype, g, after) ==
  /\ pc = "gen_" \o archetype
  /\ IF i < counts[archetype]
     THEN IF EmptyRange(window[1], window[2])
          THEN /\ pc' = "ValueError_empty_range"
               /\ UNCHANGED <<records, rng, fk, i>>
          ELSE /\ records' = Append(records, g.rec)
               /\ rng' = AdvanceBy(rng, 1 + g.n)
               /\ fk' = Advance(fk)
               /\ i' = i + 1
               /\ pc' = pc
     ELSE /\ pc' = "to_dataframe"
          /\ i' = 0
          /\ UNCHANGED <<records, rng, fk>>
  /\ UNCHANGED <<caller, args, run, clock, np, window, counts, df, first,
                 fileWritten>>
  /\ UNCHANGED genVars /\ UNCHANGED agentVars /\ UNCHANGED report

\* One turn of "for i in range(count)": a timestamp, unless randint raises,
\* then the record g of the archetype, appended; or the loop is over.
Loop(archetype, g, after) ==
  /\ pc = "gen_" \o archetype
  /\ IF i < counts[archetype]
     THEN IF EmptyRange(window[1], window[2])
          THEN /\ pc' = "ValueError_empty_range"
               /\ UNCHANGED <<records, rng, fk, i>>
          ELSE /\ records' = Append(records, g.rec)
               /\ rng' = AdvanceBy(rng, 1 + g.n)
               /\ fk' = Advance(fk)
               /\ i' = i + 1
               /\ pc' = pc
     ELSE /\ pc' = after
          /\ i' = 0
          /\ UNCHANGED <<records, rng, fk>>
  /\ UNCHANGED <<caller, args, run, clock, np, window, counts, df, first,
                 fileWritten>>
  /\ UNCHANGED genVars /\ UNCHANGED agentVars /\ UNCHANGED report

GenerateLegitimate ==
  Loop("legitimate",
       LegitimateGenerate(NextTimestamp, DefaultDifficulty("legitimate"),
                          NextDraws, fk),
       "gen_fake_account")
GenerateFakeAccount ==
  Loop("fake_account",
       FakeAccountGenerate(NextTimestamp, DefaultDifficulty("fake_account"),
                           NextDraws, fk),
       "gen_account_takeover")
GenerateAccountTakeover ==
  Loop("account_takeover",
       AccountTakeoverGenerate(NextTimestamp,
                               DefaultDifficulty("account_takeover"),
                               NextDraws, fk),
       "gen_payment_fraud")
GeneratePaymentFraud ==
  Loop("payment_fraud",
       PaymentFraudGenerate(NextTimestamp, DefaultDifficulty("payment_fraud"),
                            NextDraws, fk),
       "to_dataframe")

\* pd.DataFrame([record.to_dict() for record in records])
ToDataFrame ==
  /\ pc = "to_dataframe"
  /\ df' = [k \in 1..Len(records) |-> ToDict(records[k])]
  /\ pc' = "shuffle"
  /\ UNCHANGED <<caller, args, run, clock, rng, fk, np, window, counts, i,
                 records, first, fileWritten>>
  /\ UNCHANGED genVars /\ UNCHANGED agentVars /\ UNCHANGED report

\* df.sample(frac=1.0, random_state=seed).reset_index(drop=True); return df
Shuffle ==
  /\ pc = "shuffle"
  /\ df' = Sample(df, SeedRandom(args.seed, np))
  /\ np' = IF args.seed.some THEN np ELSE AdvanceBy(np, Len(df))
  /\ pc' = "returned"
  /\ UNCHANGED <<caller, args, run, clock, rng, fk, window, counts, i, records,
                 first, fileWritten>>
  /\ UNCHANGED genVars /\ UNCHANGED agentVars /\ UNCHANGED report

\* ------------------------------------------------------ validate_dataset
\* abuse_flag_check['legitimate'] needs a legitimate row (KeyError), and each
\* sample .iloc[0] a row of its archetype (IndexError).
ValidateRaises(rows) ==
  IF RowsOf(rows, "legitimate") = {} THEN "KeyError"
  ELSE IF \E a \in {"fake_account", "account_takeover", "payment_fraud"} :
            RowsOf(rows, a) = {}
       THEN "IndexError"
       ELSE "no"

\* df.groupby('abuse_type')['is_abuse'].all() of one group
GroupAll(rows, archetype) ==
  \A k \in RowsOf(rows, archetype) : rows[k].is_abuse
\* the check of the is_abuse flag: "consistent" when the legitimate group is
\* not all flagged and every other group is all flagged, else "warning"
FlagCheck(rows) ==
  LET groups == {rows[k].abuse_type : k \in 1..Len(rows)}
  IN  IF "legitimate" \notin groups THEN "KeyError"
      ELSE IF /\ ~GroupAll(rows, "legitimate")
              /\ \A a \in groups \ {"legitimate"} : GroupAll(rows, a)
           THEN "consistent"
           ELSE "warning"

\* ----------------------------------------------------------------- main
\* back in the caller: main() validates unless --no-validate
Returned ==
  /\ pc = "returned"
  /\ pc' = IF caller = "lib" THEN "run_done"
           ELSE IF args.validate THEN "validate" ELSE "to_csv"
  /\ UNCHANGED <<caller, args, run, clock, rng, fk, np, window, counts, i,
                 records, df, first, fileWritten>>
  /\ UNCHANGED genVars /\ UNCHANGED agentVars /\ UNCHANGED report

ValidateDataset ==
  /\ pc = "validate"
  /\ pc' = IF ValidateRaises(df) = "no" THEN "to_csv" ELSE ValidateRaises(df)
  /\ report' = IF FlagCheck(df) = "KeyError" THEN report ELSE FlagCheck(df)
  /\ UNCHANGED <<caller, args, run, clock, rng, fk, np, window, counts, i,
                 records, df, first, fileWritten>>
  /\ UNCHANGED genVars /\ UNCHANGED agentVars

\* df.to_csv(output_path, index=False)
ToCsv ==
  /\ pc = "to_csv"
  /\ fileWritten' = TRUE
  /\ pc' = "run_done"
  /\ UNCHANGED <<caller, args, run, clock, rng, fk, np, window, counts, i,
                 records, df, first>>
  /\ UNCHANGED genVars /\ UNCHANGED agentVars /\ UNCHANGED report

\* The caller runs again, later, with the same arguments.
RunAgain ==
  /\ pc = "run_done"
  /\ run = 1
  /\ run' = 2
  /\ first' = <<df, args, window>>
  /\ \E dt \in ClockSteps : clock' = clock + dt
  /\ pc' = "start"
  /\ UNCHANGED <<caller, args, rng, fk, np, window, counts, i, records, df,
                 fileWritten>>
  /\ UNCHANGED genVars /\ UNCHANGED agentVars /\ UNCHANGED report

\* The caller runs again at the same time, with other ratios that pass the
\* sum check and leave the fake_account ratio as it was.
RunAgainWithOtherRatios ==
  /\ pc = "run_done"
  /\ run = 1
  /\ run' = 2
  /\ first' = <<df, args, window>>
  /\ \E r \in RatioChoices :
       /\ r # args.ratios
       /\ r[2] = args.ratios[2]
       /\ RatiosValid(TotalRatio(r))
       /\ args' = [args EXCEPT !.ratios = r]
  /\ pc' = "start"
  /\ UNCHANGED <<caller, clock, rng, fk, np, window, counts, i, records, df,
                 fileWritten>>
  /\ UNCHANGED genVars /\ UNCHANGED agentVars /\ UNCHANGED report

Finish ==
  /\ pc = "run_done"
  /\ run = 2
  /\ pc' = "done"
  /\ UNCHANGED <<caller, args, run, clock, rng, fk, np, window, counts, i,
                 records, df, first, fileWritten>>
  /\ UNCHANGED genVars /\ UNCHANGED agentVars /\ UNCHANGED report

Init ==
  /\ InitData
  /\ gcall = NoCall
  /\ rec = <<>>
  /\ AgentIdle

Next ==
  \/ Call
  \/ ValidateRatios
  \/ SetUp
  \/ CalculateCounts
  \/ GenerateLegitimate
  \/ GenerateFakeAccount
  \/ GenerateAccountTakeover
  \/ GeneratePaymentFraud
  \/ ToDataFrame
  \/ Shuffle
  \/ Returned
  \/ ValidateDataset
  \/ ToCsv
  \/ RunAgain
  \/ RunAgainWithOtherRatios
  \/ Finish

Spec == Init /\ [][Next]_vars

\* ======================================================================
\* Direct calls of the generate methods, for any timestamp and difficulty
\* ======================================================================
TimestampChoices == {0, 3 * TicksPerDay + 1}

\* the draws the longest path through generate consumes
TapeLength(archetype) ==
  CASE archetype = "legitimate" -> 16
    [] archetype = "fake_account" -> 11
    [] archetype = "account_takeover" -> 14
    [] archetype = "payment_fraud" -> 15
    [] archetype = "suspicious_but_legitimate" -> 14

\* the sets of at most k of the positions 1..n
RECURSIVE VariedSets(_, _)
VariedSets(n, k) ==
  IF n = 0 \/ k = 0 THEN {{}}
  ELSE VariedSets(n - 1, k) \cup {S \cup {n} : S \in VariedSets(n - 1, k - 1)}

\* The sources a call is run on: every stream of the generator, and the
\* tapes that hold the least unit everywhere but at MaxVaried positions or
\* fewer, where they hold the greatest, and the other way round.
Sources(n) ==
  {Stream(s) : s \in 0..UnitMax} \cup
  {Tape([k \in 1..n |-> IF k \in S THEN UnitMax - base ELSE base]) :
     S \in VariedSets(n, MaxVaried), base \in {0, UnitMax}}

InitGen ==
  /\ gcall \in [archetype : ABUSE_TYPES, timestamp : TimestampChoices,
                difficulty : Difficulties]
  /\ rec = <<>>
  /\ pc = "idle"
  /\ caller = "none"
  /\ args = [size |-> 0, ratios |-> <<0, 0, 0, 0>>, seed |-> None,
             start_date |-> None, end_date |-> None,
             suspicious_but_legitimate_ratio |-> None, validate |-> FALSE]
  /\ run = 1
  /\ clock = StartClock
  /\ rng = 0
  /\ fk = 0
  /\ np = 0
  /\ window = <<0, 0>>
  /\ counts = NoCounts
  /\ i = 0
  /\ records = <<>>
  /\ df = <<>>
  /\ first = <<>>
  /\ fileWritten = FALSE
  /\ report = ""
  /\ AgentIdle

\* generate(timestamp, difficulty) of the generator of gcall.archetype, on
\* one of the sources and one of the draws of Faker
CallLegitimate ==
  /\ gcall.archetype = "legitimate" /\ rec = <<>>
  /\ \E src \in Sources(TapeLength("legitimate")), fu \in {0, UnitMax} :
       rec' = <<LegitimateGenerate(gcall.timestamp, gcall.difficulty,
                                   src, fu).rec>>
  /\ UNCHANGED gcall /\ UNCHANGED dataVars /\ UNCHANGED agentVars
  /\ UNCHANGED report

CallFakeAccount ==
  /\ gcall.archetype = "fake_account" /\ rec = <<>>
  /\ \E src \in Sources(TapeLength("fake_account")), fu \in {0, UnitMax} :
       rec' = <<FakeAccountGenerate(gcall.timestamp, gcall.difficulty,
                                    src, fu).rec>>
  /\ UNCHANGED gcall /\ UNCHANGED dataVars /\ UNCHANGED agentVars
  /\ UNCHANGED report

CallAccountTakeover ==
  /\ gcall.archetype = "account_takeover" /\ rec = <<>>
  /\ \E src \in Sources(TapeLength("account_takeover")), fu \in {0, UnitMax} :
       rec' = <<AccountTakeoverGenerate(gcall.timestamp, gcall.difficulty,
                                        src, fu).rec>>
  /\ UNCHANGED gcall /\ UNCHANGED dataVars /\ UNCHANGED agentVars
  /\ UNCHANGED report

CallPaymentFraud ==
  /\ gcall.archetype = "payment_fraud" /\ rec = <<>>
  /\ \E src \in Sources(TapeLength("payment_fraud")), fu \in {0, UnitMax} :
       rec' = <<PaymentFraudGenerate(gcall.timestamp, gcall.difficulty,
                                     src, fu).rec>>
  /\ UNCHANGED gcall /\ UNCHANGED dataVars /\ UNCHANGED agentVars
  /\ UNCHANGED report

CallSuspiciousButLegitimate ==
  /\ gcall.archetype = "suspicious_but_legitimate" /\ rec = <<>>
  /\ \E src \in Sources(TapeLength("suspicious_but_legitimate")),
        fu \in {0, UnitMax} :
       rec' = <<SuspiciousButLegitimateGenerate(gcall.timestamp,
                                                gcall.difficulty, src, fu).rec>>
  /\ UNCHANGED gcall /\ UNCHANGED dataVars /\ UNCHANGED agentVars
  /\ UNCHANGED report

NextGen ==
  \/ CallLegitimate
  \/ CallFakeAccount
  \/ CallAccountTakeover
  \/ CallPaymentFraud
  \/ CallSuspiciousButLegitimate

SpecGen == InitGen /\ [][NextGen]_vars

\* ======================================================================
\* The agent service: POST /api/v1/review and FraudDecisionEngine
\* ======================================================================
\* what makes ml_client.predict raise: a timeout, an error status, a failed
\* connection, a body that is no FraudPredictionResponse
MLFailures ==
  {"TimeoutException", "HTTPStatusError", "ConnectError", "ValidationError"}
\* what ml_client.predict gives: a prediction with a score in [0, 1], or one
\* of the exceptions
MLAnswers ==
  {[kind |-> "prediction", legitimacy_score |-> x] : x \in 0..ScoreScale}
    \cup {[kind |-> k, legitimacy_score |-> 0] : k \in MLFailures}

\* mutant of AtLeast: the threshold itself is not enough
AtLeastStrict(score, tenths) == 10 * score > tenths * ScoreScale

\* score >= threshold, the threshold in tenths
AtLeast(score, tenths) == 10 * score >= tenths * ScoreScale
\* score <= threshold, the threshold in tenths
AtMost(score, tenths) == 10 * score <= tenths * ScoreScale

\* _auto_approve_decision
AutoApproveDecision(score) ==
  [decision |-> "approve", legitimacy_score |-> score,
   decision_maker |-> "ml_model"]
\* _auto_deny_decision
AutoDenyDecision(score) ==
  [decision |-> "deny", legitimacy_score |-> score,
   decision_maker |-> "ml_model"]
\* _agent_review: the placeholder response
AgentReview(score) ==
  [decision |-> "review", legitimacy_score |-> score,
   decision_maker |-> "review_required"]
\* step 2 of make_decision: the threshold rules
ThresholdDecision(score) ==
  IF AtLeast(score, auto_approve_threshold) THEN AutoApproveDecision(score)
  ELSE IF AtMost(score, auto_deny_threshold) THEN AutoDenyDecision(score)
  ELSE AgentReview(score)

\* a request has reached review_transaction, which calls make_decision
InitAgent ==
  /\ apc = "predict"
  /\ ml = NoAnswer
  /\ decision = <<>>
  /\ http = 0
  /\ gcall = NoCall
  /\ rec = <<>>
  /\ pc = "idle"
  /\ caller = "none"
  /\ args = [size |-> 0, ratios |-> <<0, 0, 0, 0>>, seed |-> None,
             start_date |-> None, end_date |-> None,
             suspicious_but_legitimate_ratio |-> None, validate |-> FALSE]
  /\ run = 1
  /\ clock = StartClock
  /\ rng = 0
  /\ fk = 0
  /\ np = 0
  /\ window = <<0, 0>>
  /\ counts = NoCounts
  /\ i = 0
  /\ records = <<>>
  /\ df = <<>>
  /\ first = <<>>
  /\ fileWritten = FALSE
  /\ report = ""

\* mutant of AfterPredict: the exception is swallowed
AfterPredictSwallowed(a) == "decide"

\* the try around predict: on to the threshold rules with a prediction, out
\* of make_decision with the exception
AfterPredict(a) == IF a.kind = "prediction" THEN "decide" ELSE "raised"

\* step 1 of make_decision: await self.ml_client.predict(transaction); an
\* exception is logged and raised again
Predict ==
  /\ apc = "predict"
  /\ \E a \in MLAnswers :
       /\ ml' = a
       /\ apc' = AfterPredict(a)
  /\ UNCHANGED <<decision, http>>
  /\ UNCHANGED genVars /\ UNCHANGED dataVars /\ UNCHANGED report

\* step 2 of make_decision, and its return
MakeDecision ==
  /\ apc = "decide"
  /\ decision' = <<ThresholdDecision(ml.legitimacy_score)>>
  /\ apc' = "return"
  /\ UNCHANGED <<ml, http>>
  /\ UNCHANGED genVars /\ UNCHANGED dataVars /\ UNCHANGED report

\* review_transaction answers: the decision, or HTTP 503 on any exception
ReviewTransaction ==
  /\ apc \in {"return", "raised"}
  /\ http' = IF apc = "return" THEN 200 ELSE 503
  /\ apc' = "done"
  /\ UNCHANGED <<ml, decision>>
  /\ UNCHANGED genVars /\ UNCHANGED dataVars /\ UNCHANGED report

NextAgent ==
  \/ Predict
  \/ MakeDecision
  \/ ReviewTransaction

SpecAgent == InitAgent /\ [][NextAgent]_vars

\* ======================================================================
\* validate_dataset called on a table of labelled rows
\* ======================================================================
\* the labels of a row: any abuse_type with any flag
LabelledRows == [abuse_type : ABUSE_TYPES, is_abuse : BOOLEAN]
\* the tables of at most MaxRows rows
Tables == UNION {[1..n -> LabelledRows] : n \in 0..MaxRows}

InitValidate ==
  /\ df \in Tables
  /\ pc = "validate"
  /\ caller = "cli"
  /\ report = ""
  /\ args = [size |-> 0, ratios |-> <<0, 0, 0, 0>>, seed |-> None,
             start_date |-> None, end_date |-> None,
             suspicious_but_legitimate_ratio |-> None, validate |-> TRUE]
  /\ run = 1
  /\ clock = StartClock
  /\ rng = 0
  /\ fk = 0
  /\ np = 0
  /\ window = <<0, 0>>
  /\ counts = NoCounts
  /\ i = 0
  /\ records = <<>>
  /\ first = <<>>
  /\ fileWritten = FALSE
  /\ gcall = NoCall
  /\ rec = <<>>
  /\ AgentIdle

SpecValidate == InitValidate /\ [][ValidateDataset]_vars

\* ======================================================================
\* The claims
\* ======================================================================
LegitimateTypes == {"legitimate", "suspicious_but_legitimate"}
FraudTiers == {"easy", "medium", "hard"}
Abs(x) == IF x < 0 THEN -x ELSE x
\* the number of rows of an archetype
Realized(rows, archetype) == Cardinality(RowsOf(rows, archetype))
\* Python's round(n / d) of a non-negative quotient: ties go to the even
RoundHalfEven(n, d) ==
  LET q == n \div d
      r == n % d
  IN  IF 2 * r < d THEN q
      ELSE IF 2 * r > d THEN q + 1
      ELSE IF q % 2 = 0 THEN q ELSE q + 1
RatioIndex(archetype) ==
  CASE archetype = "legitimate" -> 1
    [] archetype = "fake_account" -> 2
    [] archetype = "account_takeover" -> 3
    [] archetype = "payment_fraud" -> 4
\* the sum of the ratios is outside [0.99, 1.01]
SumOutOfTolerance == TotalRatio(args.ratios) < 99 \/ TotalRatio(args.ratios) > 101

\* C1: every record any of the five generators returns, for any timestamp
\* and any difficulty, has is_abuse true exactly when its abuse_type is
\* neither legitimate nor suspicious_but_legitimate.
C1_LabelConsistency ==
  rec # <<>> =>
    (rec[1].is_abuse <=> rec[1].abuse_type \notin LegitimateTypes)
C1_Witness ==
  /\ rec # <<>>
  /\ rec[1].abuse_type = "suspicious_but_legitimate"
  /\ gcall.difficulty = "hard"
  /\ ~rec[1].is_abuse

\* C2: a call whose ratios pass the sum check returns a table of exactly
\* size rows, made of exactly size generated records.
C2_CountExact ==
  pc = "returned" => Len(records) = args.size /\ Len(df) = args.size

\* C3: when the ratios sum to a value outside [0.99, 1.01] the call raises
\* before any generator is invoked: no record is ever generated, no table
\* is made and main() writes no file; a call that reaches the comparison ends in
\* the ValueError.
C3_ConfigError ==
  SumOutOfTolerance =>
    /\ records = <<>>
    /\ df = <<>>
    /\ ~fileWritten
    /\ pc \in {"start", "validate_ratios",
               IF args.suspicious_but_legitimate_ratio.some THEN "TypeError"
               ELSE "ValueError"}
C3_Witness ==
  /\ pc = "ValueError"
  /\ caller = "cli"
  /\ TotalRatio(args.ratios) = 105
  /\ args.size > 0
  /\ ~fileWritten

\* C4: every record any generator returns has billing_shipping_match true
\* exactly when billing_country equals shipping_country.
C4_MatchConsistent ==
  rec # <<>> =>
    (rec[1].billing_shipping_match
       <=> rec[1].billing_country = rec[1].shipping_country)

\* C5: two calls with the same size, ratios, seed, start_date and end_date
\* (a seed and both dates being given) return the same table: the same rows
\* in the same order.
C5_Deterministic ==
  (/\ pc = "run_done" /\ run = 2
   /\ args.seed.some /\ args.start_date.some /\ args.end_date.some
   /\ first[2] = args)
    => df = first[1]
C5_Witness ==
  /\ pc = "run_done" /\ run = 2
  /\ args.seed.some /\ args.start_date.some /\ args.end_date.some
  /\ first[2] = args
  /\ Len(df) = MaxSize
  /\ df = first[1]
  /\ \E k \in 1..Len(df) : df[k] # ToDict(records[k])

\* C6: every record any generator returns has account_age_days >= 0,
\* order_amount > 0 and abuse_confidence in [0, 1].
C6_Ranges ==
  rec # <<>> =>
    /\ rec[1].account_age_days >= 0
    /\ rec[1].order_amount > 0
    /\ 0 <= rec[1].abuse_confidence /\ rec[1].abuse_confidence <= 100
\* the draw of random.gauss was below the floor of 10.00
C6_Witness ==
  /\ rec # <<>>
  /\ rec[1].abuse_type = "legitimate"
  /\ rec[1].order_amount = 1000

\* C7: for a difficulty of easy, medium or hard, the record's tier is 'n/a'
\* exactly when its abuse_type is legitimate or suspicious_but_legitimate;
\* the two legitimate generators tag 'n/a' whatever the difficulty.
C7_TierTag ==
  rec # <<>> =>
    /\ gcall.difficulty \in FraudTiers =>
         (rec[1].difficulty_tier = "n/a"
            <=> rec[1].abuse_type \in LegitimateTypes)
    /\ gcall.archetype \in LegitimateTypes => rec[1].difficulty_tier = "n/a"
C7_Witness ==
  /\ rec # <<>>
  /\ gcall.archetype = "suspicious_but_legitimate"
  /\ gcall.difficulty = "medium"
  /\ rec[1].difficulty_tier = "n/a"

\* C8: the abuse_confidence of a fraud record lies in the interval of its
\* tier: easy [0.85, 0.98], medium [0.65, 0.80], hard [0.45, 0.65]; so an
\* easy confidence is above every medium one, and a medium confidence is at
\* least every hard one.
TierLow(tier) ==
  CASE tier = "easy" -> 85 [] tier = "medium" -> 65 [] tier = "hard" -> 45
TierHigh(tier) ==
  CASE tier = "easy" -> 98 [] tier = "medium" -> 80 [] tier = "hard" -> 65
C8_TierIntervals ==
  (rec # <<>> /\ rec[1].is_abuse /\ rec[1].difficulty_tier \in FraudTiers) =>
    /\ TierLow(rec[1].difficulty_tier) <= rec[1].abuse_confidence
    /\ rec[1].abuse_confidence <= TierHigh(rec[1].difficulty_tier)
    /\ rec[1].difficulty_tier = "easy" =>
         rec[1].abuse_confidence > TierHigh("medium")
    /\ rec[1].difficulty_tier = "medium" =>
         rec[1].abuse_confidence >= TierHigh("hard")
\* a medium record at the confidence the hard tier ends at
C8_Witness ==
  /\ rec # <<>>
  /\ rec[1].abuse_type = "fake_account"
  /\ rec[1].difficulty_tier = "medium"
  /\ rec[1].abuse_confidence = TierHigh("hard")

\* C9 as stated: the realized count of every archetype, payment_fraud
\* included, is within one unit of round(size * ratio); size 100 with
\* 0.7/0.1/0.1/0.1 gives 70/10/10/10.
C9_RatioFidelity ==
  pc = "returned" =>
    /\ \A a \in DOMAIN NoCounts :
         Abs(Realized(df, a)
               - RoundHalfEven(args.size * args.ratios[RatioIndex(a)], 100)) <= 1
    /\ (args.size = 100 /\ args.ratios = <<70, 10, 10, 10>>) =>
         /\ Realized(df, "legitimate") = 70
         /\ Realized(df, "fake_account") = 10
         /\ Realized(df, "account_takeover") = 10
         /\ Realized(df, "payment_fraud") = 10
\* C9 as amended: each archetype but the last has floor(size * ratio)
\* records, which is within one unit of round(size * ratio); payment_fraud
\* has the records that remain, if any; size 100 with 0.7/0.1/0.1/0.1 gives
\* 70/10/10/10.
C9_NonFinalFidelity ==
  pc = "returned" =>
    /\ \A a \in DOMAIN NoCounts \ {"payment_fraud"} :
         /\ Realized(df, a) = (args.size * args.ratios[RatioIndex(a)]) \div 100
         /\ Abs(Realized(df, a)
                  - RoundHalfEven(args.size * args.ratios[RatioIndex(a)], 100))
              <= 1
    /\ Realized(df, "payment_fraud") =
         Max(0, args.size - Realized(df, "legitimate")
                  - Realized(df, "fake_account")
                  - Realized(df, "account_takeover"))
    /\ (args.size = 100 /\ args.ratios = <<70, 10, 10, 10>>) =>
         /\ Realized(df, "legitimate") = 70
         /\ Realized(df, "fake_account") = 10
         /\ Realized(df, "account_takeover") = 10
         /\ Realized(df, "payment_fraud") = 10
C9_Witness ==
  /\ pc = "returned"
  /\ args.size = 100 /\ args.ratios = <<70, 10, 10, 10>>
  /\ Realized(df, "legitimate") = 70
  /\ Realized(df, "payment_fraud") = 10

\* C10: a call that passes suspicious_but_legitimate_ratio, as
\* AgentTester.run_tests does, is accepted.
C10_FifthRatioAccepted ==
  args.suspicious_but_legitimate_ratio.some => pc # "TypeError"

\* C11: every record of a dataset generated with a window start_date <
\* end_date has its timestamp in the half-open window: start_date <= t <
\* end_date.
C11_HalfOpenWindow ==
  window[1] < window[2] =>
    \A k \in 1..Len(records) :
      window[1] <= records[k].timestamp /\ records[k].timestamp < window[2]

\* how many times x occurs in a sequence
Occurrences(seq, x) == Cardinality({k \in 1..Len(seq) : seq[k] = x})
\* two sequences hold the same elements, each as many times
SameBag(a, b) ==
  /\ Len(a) = Len(b)
  /\ \A k \in 1..Len(a) : Occurrences(a, a[k]) = Occurrences(b, a[k])
\* a generated record with its two datetimes written to the second
WrittenToTheSecond(r) ==
  [r EXCEPT !.timestamp = r.timestamp \div TicksPerSecond,
            !.account_created_date = r.account_created_date \div TicksPerSecond]
\* a row of the table with its two datetime strings read as datetimes
ReadAsDatetime(row) ==
  [row EXCEPT !.timestamp = row.timestamp * TicksPerSecond,
              !.account_created_date = row.account_created_date * TicksPerSecond]

\* C12 as stated: the returned table is a permutation of the generated
\* records, every record exactly once and every field value, the two
\* datetimes included, the one the generator returned.
C12_PermutationOfRecords ==
  pc = "returned" =>
    SameBag([k \in 1..Len(df) |-> ReadAsDatetime(df[k])], records)
\* C12 as amended: the returned table is a permutation of the generated
\* records, every record exactly once and every field value the one the
\* generator returned, but for the two datetimes, which are written to the
\* second.
C12_PermutationOfRows ==
  pc = "returned" =>
    SameBag(df, [k \in 1..Len(records) |-> WrittenToTheSecond(records[k])])
\* a table of the default window whose rows the shuffle moved
C12_Witness ==
  /\ pc = "returned"
  /\ ~args.start_date.some
  /\ Len(df) = 10
  /\ \E k \in 1..Len(df) : df[k] # WrittenToTheSecond(records[k])
  /\ \E k \in 1..Len(df) : ReadAsDatetime(df[k]) # records[k]

\* C13: validate_dataset runs to completion on every table generate_dataset
\* returns, a table without a record of some archetype included: it raises
\* neither KeyError nor IndexError.
C13_ValidateNeverRaises ==
  pc \notin {"KeyError", "IndexError"}

\* C14: no two records of one generated dataset have the same
\* transaction_id.
C14_UniqueTransactionIds ==
  pc = "returned" =>
    \A j, k \in 1..Len(df) :
      j # k => df[j].transaction_id # df[k].transaction_id

\* C15: every FakeAccount record generated with difficulty 'easy' has
\* account_age_days in [0, 3] and new_device true.
C15_EasyFakeAccount ==
  (rec # <<>> /\ gcall.archetype = "fake_account" /\ gcall.difficulty = "easy")
    => /\ 0 <= rec[1].account_age_days /\ rec[1].account_age_days <= 3
       /\ rec[1].new_device
C15_Witness ==
  /\ rec # <<>>
  /\ gcall.archetype = "fake_account" /\ gcall.difficulty = "easy"
  /\ rec[1].account_age_days = 3
  /\ rec[1].new_device

\* C16: every AccountTakeover record generated with difficulty 'hard' has
\* failed_login_attempts_24h = 0 and password_reset_count_30d = 0.
C16_HardTakeoverLogins ==
  (/\ rec # <<>>
   /\ gcall.archetype = "account_takeover" /\ gcall.difficulty = "hard")
    => /\ rec[1].failed_login_attempts_24h = 0
       /\ rec[1].password_reset_count_30d = 0
\* a hard record whose location is masked by a VPN
C16_Witness ==
  /\ rec # <<>>
  /\ gcall.archetype = "account_takeover" /\ gcall.difficulty = "hard"
  /\ rec[1].difficulty_tier = "hard"
  /\ rec[1].failed_login_attempts_24h = 0
  /\ rec[1].vpn_proxy_detected

\* C17: two runs of main() with the same --size, ratio options and --seed,
\* started at different times, write the same dataset.
C17_SeedIsTheKey ==
  (caller = "cli" /\ run = 2 /\ pc = "run_done" /\ fileWritten
     /\ first[2] = args)
    => df = first[1]

\* the fake_account rows of a table
FakeAccountRows(rows) == {rows[k] : k \in RowsOf(rows, "fake_account")}

\* C18: for a fixed seed and window, the fake_account records of a dataset
\* are the same whatever the number of records generated for the other
\* archetypes: two runs that differ in the other ratios only return the
\* same fake_account rows.
C18_NoSharedState ==
  (/\ pc = "run_done" /\ run = 2
   /\ args.seed.some
   /\ first[3] = window
   /\ first[2].size = args.size
   /\ first[2].ratios[2] = args.ratios[2])
    => FakeAccountRows(df) = FakeAccountRows(first[1])

\* C19: a call with a window end_date <= start_date is rejected with an
\* error: it generates no record.
C19_DegenerateWindowRejected ==
  (/\ args.start_date.some /\ args.end_date.some
   /\ args.end_date.v <= args.start_date.v)
    => records = <<>> /\ pc # "returned"

\* C20: for every legitimacy score in [0, 1] the ML service returns,
\* make_decision with the default thresholds returns 'approve' iff score >=
\* 0.7, 'deny' iff score <= 0.4 and 'review' iff 0.4 < score < 0.7; the
\* decision_maker is 'ml_model' for approve and deny and 'review_required'
\* for review, and the legitimacy_score returned is the ML score.
C20_ThresholdDecision ==
  decision # <<>> =>
    LET d == decision[1]
        score == ml.legitimacy_score
    IN  /\ ml.kind = "prediction"
        /\ d.decision \in {"approve", "deny", "review"}
        /\ d.decision = "approve" <=> 10 * score >= 7 * ScoreScale
        /\ d.decision = "deny" <=> 10 * score <= 4 * ScoreScale
        /\ d.decision = "review" <=>
             (4 * ScoreScale < 10 * score /\ 10 * score < 7 * ScoreScale)
        /\ d.decision_maker =
             (IF d.decision = "review" THEN "review_required" ELSE "ml_model")
        /\ d.legitimacy_score = score
\* a score of exactly 0.7 is approved and answered with HTTP 200
C20_Witness ==
  /\ decision # <<>>
  /\ 10 * ml.legitimacy_score = 7 * ScoreScale
  /\ decision[1].decision = "approve"
  /\ http = 200

\* C21: when the ML prediction call fails, make_decision produces no
\* decision and raises, and the endpoint answers with HTTP 503; a decision
\* is returned only for a transaction with an ML score.
C21_NoDecisionWithoutScore ==
  /\ ml.kind \in MLFailures =>
       /\ decision = <<>>
       /\ apc \in {"raised", "done"}
       /\ apc = "done" => http = 503
       /\ apc = "raised" => http = 0
  /\ decision # <<>> => ml.kind = "prediction"
  /\ http = 200 => decision # <<>>
C21_Witness ==
  /\ ml.kind = "TimeoutException"
  /\ apc = "done"
  /\ http = 503
  /\ decision = <<>>

\* the place of an archetype in the order of generation
OrderOf(archetype) ==
  CASE archetype = "legitimate" -> 1
    [] archetype = "fake_account" -> 2
    [] archetype = "account_takeover" -> 3
    [] archetype = "payment_fraud" -> 4
\* the loop a value of pc is in, 0 outside the four loops
LoopOf(p) ==
  CASE p = "gen_legitimate" -> 1
    [] p = "gen_fake_account" -> 2
    [] p = "gen_account_takeover" -> 3
    [] p = "gen_payment_fraud" -> 4
    [] OTHER -> 0

\* C22: records are generated in the order legitimate, fake_account,
\* account_takeover, payment_fraud, all records of one archetype before the
\* first of the next, and the table is made and shuffled only after the last
\* record of the last archetype has been generated.
C22_FixedOrderThenShuffle ==
  /\ \A k \in 1..(Len(records) - 1) :
       OrderOf(records[k].abuse_type) <= OrderOf(records[k + 1].abuse_type)
  /\ LoopOf(pc) > 0 =>
       /\ df = <<>>
       /\ \A k \in 1..Len(records) : OrderOf(records[k].abuse_type) <= LoopOf(pc)
       /\ \A a \in DOMAIN NoCounts :
            OrderOf(a) < LoopOf(pc) => Realized(records, a) = Max(0, counts[a])
  /\ pc \in {"shuffle", "returned"} =>
       \A a \in DOMAIN NoCounts : Realized(records, a) = Max(0, counts[a])
  /\ pc = "returned" => Len(df) = Len(records)
\* the shuffle has run on a table with records of all four archetypes
C22_Witness ==
  /\ pc = "returned"
  /\ \A a \in DOMAIN NoCounts : Realized(records, a) > 0
  /\ Len(df) = Len(records)
  /\ df[1].abuse_type # records[1].abuse_type

\* C23: validate_dataset reports the is_abuse flag consistent exactly when
\* every row of the table has is_abuse = (abuse_type is neither legitimate
\* nor suspicious_but_legitimate), and reports the warning otherwise
\* (stated of the calls that get as far as the report).
C23_ValidatorChecksLabels ==
  report # "" =>
    LET labelled ==
          \A k \in 1..Len(df) :
            df[k].is_abuse <=> df[k].abuse_type \notin LegitimateTypes
    IN  report = (IF labelled THEN "consistent" ELSE "warning")

\* C24: every Legitimate record has one country: ip_country,
\* billing_country, shipping_country and card_country are all equal.
C24_SingleCountry ==
  (rec # <<>> /\ gcall.archetype = "legitimate") =>
    /\ rec[1].ip_country = rec[1].billing_country
    /\ rec[1].shipping_country = rec[1].billing_country
    /\ rec[1].card_country = rec[1].billing_country

\* C25: PaymentFraud mismatches come from filtered candidates: in the easy
\* tier card_country, billing_country and shipping_country are pairwise
\* different and ip_country is a high-risk country; in the hard tier
\* billing_country equals card_country, so only shipping_country can differ.
InList(seq, c) == \E k \in 1..Len(seq) : seq[k] = c
C25_FilteredMismatches ==
  (rec # <<>> /\ gcall.archetype = "payment_fraud") =>
    /\ gcall.difficulty = "easy" =>
         /\ rec[1].card_country # rec[1].billing_country
         /\ rec[1].card_country # rec[1].shipping_country
         /\ rec[1].billing_country # rec[1].shipping_country
         /\ InList(HIGH_RISK_COUNTRIES, rec[1].ip_country)
         /\ InList(LOW_RISK_COUNTRIES, rec[1].billing_country)
         /\ InList(LOW_RISK_COUNTRIES, rec[1].shipping_country)
    /\ gcall.difficulty = "hard" =>
         rec[1].billing_country = rec[1].card_country
\* an easy record whose billing country is the first candidate left after
\* the card's country is filtered out of the list
C25_Witness ==
  /\ rec # <<>>
  /\ gcall.archetype = "payment_fraud" /\ gcall.difficulty = "easy"
  /\ rec[1].card_country = "US"
  /\ rec[1].billing_country = "CA"
  /\ rec[1].shipping_country = "GB"

\* C26: an AccountTakeover record of difficulty 'hard' transacts from the
\* account's home country (card_country and billing_country) or behind a
\* detected VPN; one of difficulty 'easy' transacts from a high-risk country
\* different from the home country.
C26_TakeoverLocation ==
  (rec # <<>> /\ gcall.archetype = "account_takeover") =>
    /\ rec[1].card_country = rec[1].billing_country
    /\ gcall.difficulty = "hard" =>
         \/ rec[1].ip_country = rec[1].card_country
         \/ rec[1].vpn_proxy_detected
    /\ gcall.difficulty = "easy" =>
         /\ InList(HIGH_RISK_COUNTRIES, rec[1].ip_country)
         /\ rec[1].ip_country # rec[1].card_country

\* C27: every SuspiciousButLegitimate record, whatever its behaviour type
\* and whatever difficulty is passed, has is_abuse False, difficulty_tier
\* 'n/a' and abuse_confidence within [0.35, 0.65].
C27_AmbiguousBand ==
  (rec # <<>> /\ gcall.archetype = "suspicious_but_legitimate") =>
    /\ rec[1].abuse_type = "suspicious_but_legitimate"
    /\ ~rec[1].is_abuse
    /\ rec[1].difficulty_tier = "n/a"
    /\ 35 <= rec[1].abuse_confidence
    /\ rec[1].abuse_confidence <= 65
\* a record generated with difficulty 'hard' at the upper edge of the band
C27_Witness ==
  /\ rec # <<>>
  /\ gcall.archetype = "suspicious_but_legitimate"
  /\ gcall.difficulty = "hard"
  /\ rec[1].difficulty_tier = "n/a"
  /\ rec[1].abuse_confidence = 65

\* C28: in every dataset generate_dataset returns, each fake_account,
\* account_takeover and payment_fraud row has difficulty_tier 'easy', and no
\* row is suspicious_but_legitimate: the composer passes no difficulty.
C28_ComposedEasyOnly ==
  pc = "returned" =>
    \A k \in 1..Len(df) :
      /\ df[k].abuse_type # "suspicious_but_legitimate"
      /\ df[k].abuse_type \in DOMAIN NoCounts
      /\ df[k].abuse_type \notin LegitimateTypes =>
           df[k].difficulty_tier = "easy"
      /\ df[k].difficulty_tier \notin {"medium", "hard"}
\* a returned dataset holding rows of all three fraud archetypes
C28_Witness ==
  /\ pc = "returned"
  /\ Len(df) > 0
  /\ \A a \in {"fake_account", "account_takeover", "payment_fraud"} :
       \E k \in 1..Len(df) :
         df[k].abuse_type = a /\ df[k].difficulty_tier = "easy"

\* C29: for every archetype and tier the range days_since_account_first_
\* purchase is drawn from is not empty, and the record has
\* 0 <= days_since_account_first_purchase <= account_age_days.
C29_FirstPurchaseAfterCreation ==
  rec # <<>> =>
    LET range == FirstPurchaseRange(gcall.archetype, gcall.difficulty,
                                    rec[1].account_age_days)
    IN  /\ range[1] <= range[2]
        /\ range[1] <= rec[1].days_since_account_first_purchase
        /\ rec[1].days_since_account_first_purchase <= range[2]
        /\ 0 <= rec[1].days_since_account_first_purchase
        /\ rec[1].days_since_account_first_purchase
             <= rec[1].account_age_days
\* a hard fake account seven days old whose first purchase was on the day
\* the account was created
C29_Witness ==
  /\ rec # <<>>
  /\ gcall.archetype = "fake_account" /\ gcall.difficulty = "hard"
  /\ rec[1].account_age_days = 7
  /\ rec[1].days_since_account_first_purchase = 7

\* C30: in every record, of every archetype and tier, the orders of the last
\* 24 hours are counted among those of the last 7 days:
\* orders_last_24h <= orders_last_7d.
C30_VelocityConsistent ==
  rec # <<>> => rec[1].orders_last_24h <= rec[1].orders_last_7d

=============================================================================
